---- MODULE Spec2Model ----
(***************************************************************************)
(* EduPay / EduConnect: the donation, request and payment records, the     *)
(* route handlers that mutate them (routes/student.js, routes/donor.js,    *)
(* routes/admin.js), the socket rooms their events are published to        *)
(* (server.js), the user accounts with registration, login and the role    *)
(* middleware (routes/auth.js, middleware/authMiddleware.js, models/User.js)*)
(* and the pages' socket clients (public/js), modelled as a state machine. *)
(* Every `await` of a handler is a point where other handlers may run, so  *)
(* a handler is one action per segment between two awaits.                 *)
(***************************************************************************)
EXTENDS Integers, Sequences, FiniteSets, TLC

VARIABLES now, donations, requests, payments, claims, payCalls, view,
          sockets, published, lastOp, users, donateCalls, signups, cookies,
          lastAuth, clients

\* the registrations, the logins and the pages' socket clients
identityVars == <<signups, cookies, lastAuth, clients>>
\* the user accounts and what works on them
accountVars == <<users, donateCalls, identityVars>>

vars ==
    <<now, donations, requests, payments, claims, payCalls, view, sockets,
      published, lastOp, accountVars>>

(***************************************************************************)
(* Bounds of the model                                                     *)
(***************************************************************************)
MaxDonations == 2
MaxRequests == 2
MaxPayments == 1
MaxClaims == 2
MaxPayCalls == 2
\* the clock advances in steps of ClockStep days, up to MaxTime days
ClockStep == 31
MaxTime == 31
MaxSockets == 2
MaxAmountLen == 2
MaxInbox == 2
MaxDonateCalls == 2
MaxSignups == 3
\* the candidate uniqueIds are the first MaxIds of the numbers from 1000
MaxIds == 2
\* a page's socket connects at most MaxConnects times
MaxConnects == 2

(***************************************************************************)
(* Identities and enumerations                                             *)
(***************************************************************************)
Students == {"s1", "s2"}
Donors == {"d1", "d2"}
Admins == {"a1", "a2"}

\* a missing body field / an unset document path
Null == "null"
\* an unset Date path (times are days >= 0)
NoDate == -1
\* a body field holding a number is text, a sequence of characters: absent
\* (or empty), or the decimal numeral of the number sent
None == <<>>
DigitChar(n) ==
    CASE n = 0 -> "0" [] n = 1 -> "1" [] n = 2 -> "2" [] n = 3 -> "3"
      [] n = 4 -> "4" [] n = 5 -> "5" [] n = 6 -> "6" [] n = 7 -> "7"
      [] n = 8 -> "8" [] n = 9 -> "9"
RECURSIVE Decimal(_)
Decimal(n) ==
    IF n < 10 THEN <<DigitChar(n)>>
    ELSE Decimal(n \div 10) \o <<DigitChar(n % 10)>>
Some(n) == Decimal(n)

\* requestSchema.type enum
RequestTypes == {"laptop", "books", "fees", "bag", "shoes", "notes", "other"}
\* donationSchema.type enum
DonationTypes == {"laptop", "books", "fees", "bag", "shoes", "notes", "money", "other"}
\* requestSchema.urgencyLevel enum
UrgencyLevels == {"low", "medium", "high", "critical"}

\* donationSchema.expiresAt default, routes/donor.js POST /donate: 30 days
ExpiryDays == 30

\* the values the clock takes
ClockTimes == {t \in 0..MaxTime : t % ClockStep = 0}

DonationIds == 1..Len(donations)
RequestIds == 1..Len(requests)
ClaimIds == 1..MaxClaims
PayCallIds == 1..MaxPayCalls

(***************************************************************************)
(* Conversions of a body field's text to a number.  The characters of the  *)
(* model are the digits, the minus sign and letters; a result is NaN or    *)
(* Num(n).                                                                 *)
(***************************************************************************)
Digits == {"0", "1", "2", "3", "4", "5", "6", "7", "8", "9"}
DigitValue(c) ==
    CASE c = "0" -> 0 [] c = "1" -> 1 [] c = "2" -> 2 [] c = "3" -> 3
      [] c = "4" -> 4 [] c = "5" -> 5 [] c = "6" -> 6 [] c = "7" -> 7
      [] c = "8" -> 8 [] c = "9" -> 9

NaN == <<>>
Num(n) == <<n>>

AllDigits(text) == text # <<>> /\ \A i \in DOMAIN text : text[i] \in Digits

RECURSIVE DigitsValue(_)
DigitsValue(text) ==
    IF text = <<>> THEN 0
    ELSE DigitsValue(SubSeq(text, 1, Len(text) - 1)) * 10
         + DigitValue(text[Len(text)])

\* the longest prefix of digits
DigitPrefix(text) ==
    LET k == CHOOSE i \in 0..Len(text) :
                 /\ \A j \in 1..i : text[j] \in Digits
                 /\ (i < Len(text) => text[i + 1] \notin Digits)
    IN  SubSeq(text, 1, k)

\* the number a comparison `text <= 0` or the schema's Number cast reads:
\* the whole text must be a numeral, the empty text is 0
ToNumber(text) ==
    IF text = <<>> THEN Num(0)
    ELSE IF AllDigits(text) THEN Num(DigitsValue(text))
    ELSE IF Head(text) = "-" /\ AllDigits(Tail(text))
    THEN Num(0 - DigitsValue(Tail(text)))
    ELSE NaN

\* parseFloat(text): the longest numeral the text starts with
ParseFloat(text) ==
    LET neg == text # <<>> /\ Head(text) = "-"
        prefix == DigitPrefix(IF neg THEN Tail(text) ELSE text)
    IN  IF prefix = <<>> THEN NaN
        ELSE Num(IF neg THEN 0 - DigitsValue(prefix) ELSE DigitsValue(prefix))

(***************************************************************************)
(* Socket sessions and the events published to rooms                       *)
(***************************************************************************)
SocketIds == 1..MaxSockets

Event(name, room) == [name |-> name, room |-> room]

\* the room `user_${id}` of claim-donation's second emit
UserRoom(user) == "user_" \o user

\* a session that is not connected; inbox is what its client has received
ClosedSocket == [open |-> FALSE, user |-> Null, rooms |-> {}, inbox |-> <<>>]

\* the broadcast with the room left out: every connected socket gets it
ReceivedIgnoringRooms(s, emits, sender) ==
    IF sockets[s].open /\ s # sender THEN emits ELSE <<>>

\* the events of emits, in order, that session s gets: io.to(room).emit
\* reaches the connected sockets of the room (sender = 0), and
\* socket.to(room).emit those other than the sending socket
Received(s, emits, sender) ==
    LET Gets(e) == sockets[s].open /\ s # sender /\ e.room \in sockets[s].rooms
    IN  SelectSeq(emits, Gets)

Deliver(emits, sender) ==
    [s \in SocketIds |->
        [sockets[s] EXCEPT !.inbox = @ \o Received(s, emits, sender)]]

\* the model's inboxes hold MaxInbox events
CanDeliver(emits, sender) ==
    \A s \in SocketIds :
        Len(sockets[s].inbox) + Len(Received(s, emits, sender)) <= MaxInbox

\* the publish calls of the last handler that published: the events in
\* order and the sending socket of a relay (0 for io.to(room).emit); flip
\* alternates with every publishing handler, so that two equal publishes
\* in a row are two steps
NoPublish == [flip |-> FALSE, emits |-> <<>>, sender |-> 0]

\* the handler's emits: nothing when it has none
Publish(emits, sender) ==
    IF emits = <<>>
    THEN UNCHANGED <<sockets, published>>
    ELSE /\ CanDeliver(emits, sender)
         /\ sockets' = Deliver(emits, sender)
         /\ published' = [flip |-> ~published.flip, emits |-> emits,
                          sender |-> sender]

\* the emits placed before the save instead of after it
EmitsBeforeSave(saved, events) == events

\* a handler's emits follow its `await ...save()` inside the try block: they
\* are reached only when the save resolved
EmitsOf(saved, events) == IF saved THEN events ELSE <<>>

\* the last create request answered, or the last request a router refused:
\* its amount field, whether a required field was missing, the answer and
\* the events it published
NoOp ==
    [op |-> Null, amount |-> <<>>, missing |-> FALSE, outcome |-> "none",
     emits |-> <<>>]

(***************************************************************************)
(* User accounts, registrations, logins and socket clients                 *)
(***************************************************************************)
Users == Students \cup Donors \cup Admins

\* the role of a user identity
RoleOf(user) ==
    IF user \in Students THEN "student"
    ELSE IF user \in Donors THEN "donor"
    ELSE "admin"

\* the callers of a route: a user, or nobody (req.user unset)
Callers == {"s1", "d1", "a1", Null}

\* the middleware with the role comparison left out: any logged-in user
\* passes
RequireRoleLoggedIn(allowedRoles, user) ==
    IF user = Null THEN "401" ELSE "next"

\* requireRole(allowedRoles)(req, res, next) with req.user = user: the
\* status it answers with, or next
RequireRole(allowedRoles, user) ==
    IF user = Null THEN "401"
    ELSE IF RoleOf(user) \notin allowedRoles THEN "403"
    ELSE "next"

DonateCallIds == 1..MaxDonateCalls
SignupIds == 1..MaxSignups

\* a donate request that has not arrived yet; read is the totalDonations of
\* the req.user document authenticateToken loaded
IdleDonateCall ==
    [pc |-> "idle", donor |-> Null, read |-> 0, stored |-> FALSE,
     outcome |-> "none"]

\* no uniqueId
NoId == 0

\* the loop bound of the uniqueId generators
MaxAttempts == 10

\* the values of Math.floor(1000 + Math.random() * 9000) the model draws
IdSpace == {1000 + i : i \in 0..(MaxIds - 1)}

\* a registration that has not arrived yet: the generator it runs, the
\* loop's attempts, the candidates drawn so far and the uniqueId assigned
IdleSignup ==
    [pc |-> "idle", via |-> Null, attempts |-> 0, draws |-> 0,
     uniqueId |-> NoId, outcome |-> "none"]

\* no token
NoToken == [field |-> Null, user |-> Null, signed |-> FALSE]

\* no request has passed through authenticateToken yet: the caller, the
\* cookie its browser held, the Authorization header it sent, the answer
\* and req.user
NoAuth ==
    [caller |-> Null, cookie |-> NoToken, header |-> NoToken,
     outcome |-> "none", user |-> Null]

\* a page that has not loaded its script: the script, whether io() gave
\* it a socket, the role the page knows, the join-room message on its way
\* to the server and the number of times the socket connected
NoClient ==
    [script |-> Null, socket |-> FALSE, role |-> Null, sent |-> Null,
     connects |-> 0]

\* no request, registration, login or page yet
InitCalls ==
    /\ donateCalls = [k \in DonateCallIds |-> IdleDonateCall]
    /\ signups = [k \in SignupIds |-> IdleSignup]
    /\ cookies = [u \in Users |-> NoToken]
    /\ lastAuth = NoAuth
    /\ clients = [s \in SocketIds |-> NoClient]

\* the users as registration stores them (donorInfo.totalDonations
\* defaults to 0 on every document)
InitAccounts ==
    /\ users = [u \in Users |-> [totalDonations |-> 0]]
    /\ InitCalls

(***************************************************************************)
(* Handler records                                                         *)
(***************************************************************************)
\* a claim-donation request that has not arrived yet
IdleClaim ==
    [pc |-> "idle", student |-> Null, donationId |-> 0, donor |-> Null,
     type |-> Null, at |-> 0, existing |-> 0, reserved |-> FALSE,
     outcome |-> "none", emits |-> <<>>]

\* handlers arrive in slot order
NextClaimSlot(c) ==
    /\ claims[c].pc = "idle"
    /\ \A b \in ClaimIds : b < c => claims[b].pc # "idle"

ClaimsInFlight == {c \in ClaimIds : claims[c].pc \notin {"idle", "done"}}

(***************************************************************************)
(* Time                                                                    *)
(***************************************************************************)
Tick ==
    /\ now + ClockStep <= MaxTime
    /\ now' = now + ClockStep
    /\ UNCHANGED <<accountVars, donations, requests, payments, claims, payCalls, view,
                   sockets, published, lastOp>>

(***************************************************************************)
(* POST /donor/donate                                                      *)
(***************************************************************************)
\* donationSchema validation run by newDonation.save()
DonationValid(type, description, value) ==
    /\ type \in DonationTypes
    /\ description # Null
    /\ value >= 0

\* the emits of lines 435-449
DonateEvents ==
    <<Event("new-donor-offering", "student"), Event("new-donor-offering", "admin")>>

Donate(donor, type, description, value) ==
    LET missing == type = Null \/ description = Null \/ value = None
        parsed == ParseFloat(value)
        valid == /\ ~missing
                 /\ parsed # NaN
                 /\ DonationValid(type, description, parsed[1])
        emits == EmitsOf(valid, DonateEvents)
    IN  /\ Len(donations) < MaxDonations
        /\ donations' =
              IF valid
              THEN Append(donations,
                      [donor |-> donor, type |-> type, value |-> parsed[1],
                       status |-> "available", recipient |-> Null,
                       donatedAt |-> NoDate, expiresAt |-> now + ExpiryDays,
                       createdAt |-> now])
              ELSE donations
        /\ Publish(emits, 0)
        /\ lastOp' = [op |-> "donate", amount |-> value, missing |-> missing,
                      outcome |-> IF missing THEN "rejected"
                                  ELSE IF valid THEN "ok" ELSE "error",
                      emits |-> emits]
        /\ users' = IF valid
                     THEN [users EXCEPT ![donor].totalDonations = @ + 1]
                     ELSE users
        /\ UNCHANGED <<donateCalls, identityVars, now, requests, payments,
                       claims, payCalls, view>>

(***************************************************************************)
(* POST /donor/donate, one action per await: authenticateToken loads the   *)
(* req.user document, the handler saves the donation, then the user        *)
(***************************************************************************)
NextDonateSlot(k) ==
    /\ donateCalls[k].pc = "idle"
    /\ \A b \in DonateCallIds : b < k => donateCalls[b].pc # "idle"

\* authenticateToken: User.findById gives the request its own copy of the
\* donor's document
DonateAuth(k, donor) ==
    /\ NextDonateSlot(k)
    /\ donateCalls' = [donateCalls EXCEPT ![k] =
          [IdleDonateCall EXCEPT !.pc = "saveDonation", !.donor = donor,
                                 !.read = users[donor].totalDonations]]
    /\ UNCHANGED <<now, donations, requests, payments, claims, payCalls, view,
                   sockets, published, lastOp, users, identityVars>>

\* the required-field check, new Donation(...) and newDonation.save()
DonateSaveDonation(k, type, description, value) ==
    /\ donateCalls[k].pc = "saveDonation"
    /\ Len(donations) < MaxDonations
    /\ LET missing == type = Null \/ description = Null \/ value = None
           parsed == ParseFloat(value)
           valid == /\ ~missing
                    /\ parsed # NaN
                    /\ DonationValid(type, description, parsed[1])
       IN  /\ donations' =
                 IF valid
                 THEN Append(donations,
                         [donor |-> donateCalls[k].donor, type |-> type,
                          value |-> parsed[1], status |-> "available",
                          recipient |-> Null, donatedAt |-> NoDate,
                          expiresAt |-> now + ExpiryDays, createdAt |-> now])
                 ELSE donations
           /\ donateCalls' = [donateCalls EXCEPT ![k] =
                 IF valid THEN [@ EXCEPT !.pc = "saveUser", !.stored = TRUE]
                 ELSE [@ EXCEPT !.pc = "done",
                                !.outcome = IF missing THEN "rejected" ELSE "error"]]
    /\ UNCHANGED <<now, requests, payments, claims, payCalls, view, sockets,
                   published, lastOp, users, identityVars>>

\* req.user.donorInfo.totalDonations += 1 on the request's copy and
\* req.user.save(), which sets the stored path to that value; then the emits
\* and the redirect
DonateSaveUser(k) ==
    /\ donateCalls[k].pc = "saveUser"
    /\ users' = [users EXCEPT ![donateCalls[k].donor].totalDonations =
                                 donateCalls[k].read + 1]
    /\ donateCalls' = [donateCalls EXCEPT ![k].pc = "done", ![k].outcome = "ok"]
    /\ Publish(DonateEvents, 0)
    /\ UNCHANGED <<now, donations, requests, payments, claims, payCalls, view,
                   lastOp, identityVars>>

(***************************************************************************)
(* POST /student/request                                                   *)
(***************************************************************************)
\* requestSchema validation run by save()
RequestValid(type, description, urgencyLevel, amount) ==
    /\ type \in RequestTypes
    /\ description # Null
    /\ urgencyLevel \in UrgencyLevels
    /\ amount >= 0

NewRequest(student, type, urgencyLevel, amount, status, fulfilledBy, fulfilledAt) ==
    [student |-> student, type |-> type, urgencyLevel |-> urgencyLevel,
     amount |-> amount, status |-> status, fulfilledBy |-> fulfilledBy,
     fulfilledAt |-> fulfilledAt, createdAt |-> now]

\* the emits of lines 85-99
RequestEvents ==
    <<Event("new-student-request", "donor"), Event("new-student-request", "admin")>>

\* the handler, `new Request(...)` having stamped createdAt at time built
SubmitRequestAt(student, type, description, urgencyLevel, amount, built) ==
    LET missing == type = Null \/ description = Null
        urgency == IF urgencyLevel = Null THEN "medium" ELSE urgencyLevel
        cast == IF amount = None THEN Num(0) ELSE ToNumber(amount)
        valid == /\ ~missing
                 /\ cast # NaN
                 /\ RequestValid(type, description, urgency, cast[1])
        emits == EmitsOf(valid, RequestEvents)
    IN  /\ Len(requests) < MaxRequests
        /\ requests' =
              IF valid
              THEN Append(requests,
                      [NewRequest(student, type, urgency, cast[1], "pending",
                                  Null, NoDate) EXCEPT !.createdAt = built])
              ELSE requests
        /\ Publish(emits, 0)
        /\ lastOp' = [op |-> "request", amount |-> amount, missing |-> missing,
                      outcome |-> IF missing THEN "rejected"
                                  ELSE IF valid THEN "ok" ELSE "error",
                      emits |-> emits]
        /\ UNCHANGED <<accountVars, now, donations, payments, claims, payCalls, view>>

SubmitRequest(student, type, description, urgencyLevel, amount) ==
    SubmitRequestAt(student, type, description, urgencyLevel, amount, now)

\* the same handler when other handlers ran between `new Request(...)`,
\* which stamps createdAt (built), and the completion of save(): the
\* document is inserted now with the earlier createdAt
SubmitRequestLate(student, type, description, urgencyLevel, amount, built) ==
    /\ built >= 0 /\ built < now
    /\ SubmitRequestAt(student, type, description, urgencyLevel, amount, built)

(***************************************************************************)
(* POST /student/claim-donation/:donationId                                *)
(***************************************************************************)
\* the check with the status comparison left out
DonationClaimableAnyStatus(d) == d \in 1..Len(donations)

\* the check of line 118 on the document findById returned
DonationClaimable(d) ==
    /\ d \in 1..Len(donations)
    /\ donations[d].status = "available"

\* Donation.findById, the availability check, and the assignments up to the
\* call of donation.save()
ClaimFind(c, student, d) ==
    /\ NextClaimSlot(c)
    /\ claims' = [claims EXCEPT ![c] =
          IF DonationClaimable(d)
          THEN [pc |-> "saveDonation", student |-> student, donationId |-> d,
                donor |-> donations[d].donor, type |-> donations[d].type,
                at |-> now, existing |-> 0, reserved |-> FALSE,
                outcome |-> "none", emits |-> <<>>]
          ELSE [IdleClaim EXCEPT !.pc = "done", !.student = student,
                !.donationId = d, !.outcome = "unavailable"]]
    /\ UNCHANGED <<accountVars, now, donations, requests, payments, payCalls, view,
                   sockets, published, lastOp>>

\* donation.save(): the modified paths are written to the stored document
ClaimSaveDonation(c) ==
    /\ claims[c].pc = "saveDonation"
    /\ donations' = [donations EXCEPT ![claims[c].donationId] =
          [@ EXCEPT !.status = "reserved",
                    !.recipient = claims[c].student,
                    !.donatedAt = claims[c].at]]
    /\ claims' = [claims EXCEPT ![c].pc = "findRequest", ![c].reserved = TRUE]
    /\ UNCHANGED <<accountVars, now, requests, payments, payCalls, view, sockets,
                   published, lastOp>>

\* the requests Request.findOne({student, type, status: 'pending'}) may return
PendingMatches(student, type) ==
    {r \in 1..Len(requests) :
        /\ requests[r].student = student
        /\ requests[r].type = type
        /\ requests[r].status = "pending"}

\* Request.findOne and the assignments up to the call of save()
ClaimFindRequest(c) ==
    /\ claims[c].pc = "findRequest"
    /\ LET m == PendingMatches(claims[c].student, claims[c].type)
       IN  \E r \in (IF m = {} THEN {0} ELSE m) :
              claims' = [claims EXCEPT ![c].pc = "saveRequest",
                                       ![c].existing = r,
                                       ![c].at = now]
    /\ UNCHANGED <<accountVars, now, donations, requests, payments, payCalls, view,
                   sockets, published, lastOp>>

\* the emits of lines 161-172
ClaimEvents(donor) ==
    <<Event("donation-claimed", "admin"), Event("donation-claimed", UserRoom(donor))>>

\* existingRequest.save() or newRequest.save(), then the notifications and
\* the redirect; a validation error goes to the catch block
ClaimSaveRequest(c) ==
    /\ claims[c].pc = "saveRequest"
    /\ LET h == claims[c]
           saved == h.existing # 0 \/ RequestValid(h.type, "Claimed", "medium", 0)
           emits == EmitsOf(saved, ClaimEvents(h.donor))
       IN  /\ requests' =
                 IF h.existing # 0
                 THEN [requests EXCEPT ![h.existing] =
                         [@ EXCEPT !.status = "fulfilled",
                                   !.fulfilledBy = h.donor,
                                   !.fulfilledAt = h.at]]
                 ELSE IF saved
                 THEN Append(requests,
                         [NewRequest(h.student, h.type, "medium", 0, "fulfilled",
                                     h.donor, h.at) EXCEPT !.createdAt = h.at])
                 ELSE requests
           /\ claims' = [claims EXCEPT ![c].pc = "done",
                                       ![c].outcome = IF saved THEN "ok" ELSE "error",
                                       ![c].emits = emits]
           /\ Publish(emits, 0)
    /\ UNCHANGED <<accountVars, now, donations, payments, payCalls, view, lastOp>>

(***************************************************************************)
(* POST /donor/payment                                                     *)
(***************************************************************************)
\* paymentSchema validation run by newPayment.save()
PaymentValid(amount) == amount >= 0

\* the emit of lines 487-494
PaymentEvents == <<Event("new-payment", "admin")>>

SubmitPayment(donor, amount, recipient) ==
    LET number == ToNumber(amount)
        rejected == amount = None \/ (number # NaN /\ number[1] <= 0)
        parsed == ParseFloat(amount)
        valid == ~rejected /\ parsed # NaN /\ PaymentValid(parsed[1])
        emits == EmitsOf(valid, PaymentEvents)
    IN  /\ Len(payments) < MaxPayments
        /\ payments' =
              IF valid
              THEN Append(payments,
                      [donor |-> donor, amount |-> parsed[1],
                       recipient |-> recipient, status |-> "pending",
                       processedBy |-> Null, processedAt |-> NoDate,
                       distributionMethod |-> "full", splitAmong |-> <<>>,
                       version |-> 0])
              ELSE payments
        /\ Publish(emits, 0)
        /\ lastOp' = [op |-> "payment", amount |-> amount,
                      missing |-> (amount = None),
                      outcome |-> IF rejected THEN "rejected"
                                  ELSE IF valid THEN "ok" ELSE "error",
                      emits |-> emits]
        /\ UNCHANGED <<accountVars, now, donations, requests, claims, payCalls, view>>

(***************************************************************************)
(* POST /admin/process-payment/:paymentId                                  *)
(***************************************************************************)
\* the splitAmong body field: absent, a string JSON.parse rejects, or the
\* JSON text of a list of {student, amount}
NoSplit == [kind |-> "absent", list |-> <<>>]
BadSplit == [kind |-> "malformed", list |-> <<>>]
SplitText(list) == [kind |-> "list", list |-> list]

\* the paths of a payment document that process-payment assigns
PaymentPaths ==
    {"status", "processedBy", "processedAt", "recipient", "distributionMethod",
     "splitAmong"}

\* the document after the assignments of the approve branch (lines 195-205)
ApproveDoc(doc, admin, recipient, distributionMethod, splitAmong) ==
    LET base == [doc EXCEPT !.status = "approved", !.processedBy = admin,
                            !.processedAt = now]
    IN  IF distributionMethod = "full" /\ recipient # Null
        THEN [base EXCEPT !.recipient = recipient, !.distributionMethod = "full"]
        ELSE IF distributionMethod = "split" /\ splitAmong.kind # "absent"
        THEN [base EXCEPT !.distributionMethod = "split",
                          !.splitAmong = splitAmong.list]
        ELSE base

\* JSON.parse(splitAmong) of line 204 throws
ParseThrows(action, distributionMethod, recipient, splitAmong) ==
    /\ action = "approve"
    /\ ~(distributionMethod = "full" /\ recipient # Null)
    /\ distributionMethod = "split"
    /\ splitAmong.kind = "malformed"

\* the document after the assignments of the reject branch (lines 219-221)
RejectDoc(doc, admin) ==
    [doc EXCEPT !.status = "cancelled", !.processedBy = admin,
                !.processedAt = now]

\* the paths mongoose marks modified: those assigned another value than the
\* document read from the store held
DirtyPaths(old, new) == {f \in PaymentPaths : old[f] # new[f]}

IdlePayCall ==
    [pc |-> "idle", admin |-> Null, paymentId |-> 0, action |-> Null,
     read |-> Null, doc |-> <<>>, dirty |-> {}, outcome |-> "none",
     emits |-> <<>>]

NextPayCallSlot(k) ==
    /\ payCalls[k].pc = "idle"
    /\ \A b \in PayCallIds : b < k => payCalls[b].pc # "idle"

\* Payment.findById, the not-found check and the assignments up to the call
\* of payment.save(); any other action leaves the request without a response
PayFind(k, admin, p, action, recipient, distributionMethod, splitAmong) ==
    /\ NextPayCallSlot(k)
    /\ payCalls' = [payCalls EXCEPT ![k] =
          LET h == [IdlePayCall EXCEPT !.admin = admin, !.paymentId = p,
                                       !.action = action]
          IN  IF p \notin 1..Len(payments)
              THEN [h EXCEPT !.pc = "done", !.outcome = "notfound"]
              ELSE LET old == payments[p]
                       seen == [h EXCEPT !.read = old.status]
                   IN  IF ParseThrows(action, distributionMethod, recipient, splitAmong)
                       THEN [seen EXCEPT !.pc = "done", !.outcome = "error"]
                       ELSE IF action = "approve"
                       THEN LET new == ApproveDoc(old, admin, recipient,
                                                  distributionMethod, splitAmong)
                            IN  [seen EXCEPT !.pc = "save", !.doc = new,
                                             !.dirty = DirtyPaths(old, new)]
                       ELSE IF action = "reject"
                       THEN LET new == RejectDoc(old, admin)
                            IN  [seen EXCEPT !.pc = "save", !.doc = new,
                                             !.dirty = DirtyPaths(old, new)]
                       ELSE [seen EXCEPT !.pc = "hung"]]
    /\ UNCHANGED <<accountVars, now, donations, requests, payments, claims, view,
                   sockets, published, lastOp>>

\* mongoose adds the version key to the update's filter when an array path
\* is set: the save fails when the stored version has moved on
VersionConflict(h) ==
    /\ "splitAmong" \in h.dirty
    /\ payments[h.paymentId].version # h.doc.version

\* the stored document after the update payment.save() sends
SavedPayment(h) ==
    LET old == payments[h.paymentId]
        set == [f \in DOMAIN old |-> IF f \in h.dirty THEN h.doc[f] ELSE old[f]]
    IN  IF "splitAmong" \in h.dirty
        THEN [set EXCEPT !.version = old.version + 1]
        ELSE set

\* the save as two updates, the scalar paths first: on a version conflict
\* the scalar paths are written and the error reported
PaySaveScalarsFirst(k) ==
    /\ payCalls[k].pc = "save"
    /\ LET h == payCalls[k]
           scalars == [h EXCEPT !.dirty = @ \ {"splitAmong"}]
       IN  IF VersionConflict(h)
           THEN /\ payments' = [payments EXCEPT ![h.paymentId] = SavedPayment(scalars)]
                /\ payCalls' = [payCalls EXCEPT ![k].pc = "done",
                                                ![k].outcome = "error"]
           ELSE /\ payments' = [payments EXCEPT ![h.paymentId] = SavedPayment(h)]
                /\ payCalls' = [payCalls EXCEPT ![k].pc = "done",
                                                ![k].outcome = "ok"]
    /\ UNCHANGED <<accountVars, now, donations, requests, claims, view, sockets,
                   published, lastOp>>

\* payment.save() and the redirect, or the catch block; the handler has no
\* emit, so the call's emits stay empty and no session gets an event
PaySave(k) ==
    /\ payCalls[k].pc = "save"
    /\ LET h == payCalls[k]
       IN  IF VersionConflict(h)
           THEN /\ payments' = payments
                /\ payCalls' = [payCalls EXCEPT ![k].pc = "done",
                                                ![k].outcome = "error"]
           ELSE /\ payments' = [payments EXCEPT ![h.paymentId] = SavedPayment(h)]
                /\ payCalls' = [payCalls EXCEPT ![k].pc = "done",
                                                ![k].outcome = "ok"]
    /\ UNCHANGED <<accountVars, now, donations, requests, claims, view, sockets,
                   published, lastOp>>

\* the response has been written (lines 216, 224, 191, 229): the handler is
\* over and the next process-payment request may arrive in its place
PayCallEnds(k) ==
    /\ payCalls[k].pc = "done"
    /\ payCalls' = [payCalls EXCEPT ![k] = IdlePayCall]
    /\ UNCHANGED <<accountVars, now, donations, requests, payments, claims, view, sockets,
                   published, lastOp>>

(***************************************************************************)
(* GET /donor/requests and the request feed of GET /donor/dashboard        *)
(***************************************************************************)
\* the code units of the urgencyLevel strings
CodeUnits(str) ==
    CASE str = "low" -> <<108, 111, 119>>
      [] str = "medium" -> <<109, 101, 100, 105, 117, 109>>
      [] str = "high" -> <<104, 105, 103, 104>>
      [] str = "critical" -> <<99, 114, 105, 116, 105, 99, 97, 108>>

RECURSIVE SeqLess(_, _)
\* lexicographic order of two sequences of code units
SeqLess(a, b) ==
    IF b = <<>> THEN FALSE
    ELSE IF a = <<>> THEN TRUE
    ELSE IF Head(a) # Head(b) THEN Head(a) < Head(b)
    ELSE SeqLess(Tail(a), Tail(b))

\* the store's comparison of two string values: by their code units
StringLess(s, t) == SeqLess(CodeUnits(s), CodeUnits(t))

\* the sortOptions of lines 517-523
SortOptions(sort) ==
    IF sort = "urgency" THEN "urgency"
    ELSE IF sort = "amount" THEN "amount"
    ELSE "createdAt"

\* the comparison with the createdAt key left out of the urgency sort
SortsBeforeUrgencyOnly(options, a, b) ==
    IF options = "urgency"
    THEN StringLess(b.urgencyLevel, a.urgencyLevel)
    ELSE IF options = "amount"
    THEN \/ a.amount > b.amount
         \/ (a.amount = b.amount /\ a.createdAt < b.createdAt)
    ELSE a.createdAt < b.createdAt

\* request a comes strictly before request b under the sort options:
\* { urgencyLevel: -1, createdAt: 1 }, { amount: -1, createdAt: 1 } or
\* { createdAt: 1 }
SortsBefore(options, a, b) ==
    IF options = "urgency"
    THEN \/ StringLess(b.urgencyLevel, a.urgencyLevel)
         \/ (a.urgencyLevel = b.urgencyLevel /\ a.createdAt < b.createdAt)
    ELSE IF options = "amount"
    THEN \/ a.amount > b.amount
         \/ (a.amount = b.amount /\ a.createdAt < b.createdAt)
    ELSE a.createdAt < b.createdAt

\* the query of lines 512-515
QueryMatches(type, urgency) ==
    {r \in 1..Len(requests) :
        /\ requests[r].status = "pending"
        /\ (type = Null \/ requests[r].type = type)
        /\ (urgency = Null \/ requests[r].urgencyLevel = urgency)}

\* the orders Request.find(query).sort(options) may return: documents that
\* compare equal come in any order
SortedResults(ids, options) ==
    {l \in [1..Cardinality(ids) -> ids] :
        /\ \A i, j \in DOMAIN l : i # j => l[i] # l[j]
        /\ \A i, j \in DOMAIN l :
              i < j => ~SortsBefore(options, requests[l[j]], requests[l[i]])}

NoView == [page |-> Null, options |-> Null, list |-> <<>>]

\* GET /donor/requests
DonorRequests(type, urgency, sort) ==
    /\ \E l \in SortedResults(QueryMatches(type, urgency), SortOptions(sort)) :
          view' = [page |-> "requests", options |-> SortOptions(sort), list |-> l]
    /\ UNCHANGED <<accountVars, now, donations, requests, payments, claims, payCalls,
                   sockets, published, lastOp>>

\* GET /donor/dashboard: the studentRequests feed
DonorDashboard ==
    /\ \E l \in SortedResults(QueryMatches(Null, Null), "urgency") :
          view' = [page |-> "dashboard", options |-> "urgency", list |-> l]
    /\ UNCHANGED <<accountVars, now, donations, requests, payments, claims, payCalls,
                   sockets, published, lastOp>>

(***************************************************************************)
(* Specification of the claim handlers running concurrently                *)
(***************************************************************************)
\* inputs the model draws
TypeInputs == {"laptop", "money"}
ValueInputs == {50}

Init ==
    /\ now = 0
    /\ donations = <<>>
    /\ requests = <<>>
    /\ payments = <<>>
    /\ claims = [c \in ClaimIds |-> IdleClaim]
    /\ payCalls = [k \in PayCallIds |-> IdlePayCall]
    /\ view = NoView
    /\ sockets = [s \in SocketIds |-> ClosedSocket]
    /\ published = NoPublish
    /\ lastOp = NoOp
    /\ InitAccounts

Next ==
    \/ Tick
    \/ \E donor \in Donors, type \in TypeInputs, value \in ValueInputs :
          Donate(donor, type, "text", Some(value))
    \/ \E s \in Students, type \in TypeInputs \cap RequestTypes :
          SubmitRequest(s, type, "text", Null, None)
    \/ \E c \in ClaimIds, s \in Students, d \in 0..Len(donations) :
          ClaimFind(c, s, d)
    \/ \E c \in ClaimIds : ClaimSaveDonation(c)
    \/ \E c \in ClaimIds : ClaimFindRequest(c)
    \/ \E c \in ClaimIds : ClaimSaveRequest(c)

Spec == Init /\ [][Next]_vars

(***************************************************************************)
(* Specification of the claim handlers running one at a time: a claim      *)
(* request arrives only when no other claim handler is in flight           *)
(***************************************************************************)
ClaimFindSeq(c, student, d) ==
    /\ ClaimsInFlight = {}
    /\ ClaimFind(c, student, d)

NextSeq ==
    \/ Tick
    \/ \E donor \in Donors, type \in TypeInputs, value \in ValueInputs :
          Donate(donor, type, "text", Some(value))
    \/ \E s \in Students, type \in TypeInputs \cap RequestTypes :
          SubmitRequest(s, type, "text", Null, None)
    \/ \E c \in ClaimIds, s \in Students, d \in 0..Len(donations) :
          ClaimFindSeq(c, s, d)
    \/ \E c \in ClaimIds : ClaimSaveDonation(c)
    \/ \E c \in ClaimIds : ClaimFindRequest(c)
    \/ \E c \in ClaimIds : ClaimSaveRequest(c)

SpecSeq == Init /\ [][NextSeq]_vars

(***************************************************************************)
(* Specification of the claim handlers on a seeded store: scripts/seed.js   *)
(* has run before the server started.  Of the donations the script stores  *)
(* the model keeps the one it marks donated.                               *)
(***************************************************************************)
SeededDonations ==
    <<[donor |-> "d2", type |-> "books", value |-> 200, status |-> "donated",
       recipient |-> "s2", donatedAt |-> 0, expiresAt |-> ExpiryDays,
       createdAt |-> 0]>>

\* seedDonations counts each donation it stores on its donor
SeededUsers ==
    [d \in Users |->
        [totalDonations |->
            Cardinality({i \in DOMAIN SeededDonations : SeededDonations[i].donor = d})]]

InitSeeded ==
    /\ now = 0
    /\ donations = SeededDonations
    /\ requests = <<>>
    /\ payments = <<>>
    /\ claims = [c \in ClaimIds |-> IdleClaim]
    /\ payCalls = [k \in PayCallIds |-> IdlePayCall]
    /\ view = NoView
    /\ sockets = [s \in SocketIds |-> ClosedSocket]
    /\ published = NoPublish
    /\ lastOp = NoOp
    /\ users = SeededUsers
    /\ InitCalls

NextSeeded ==
    \/ \E type \in TypeInputs : Donate("d1", type, "text", Some(50))
    \/ SubmitRequest("s1", "laptop", "text", Null, None)
    \/ \E c \in ClaimIds, s \in Students, d \in 0..Len(donations) :
          ClaimFind(c, s, d)
    \/ \E c \in ClaimIds : ClaimSaveDonation(c)
    \/ \E c \in ClaimIds : ClaimFindRequest(c)
    \/ \E c \in ClaimIds : ClaimSaveRequest(c)

SpecSeeded == InitSeeded /\ [][NextSeeded]_vars

(***************************************************************************)
(* The routers: router.use(requireRole(role)) runs before every handler of *)
(* /student, /donor and /admin                                             *)
(***************************************************************************)
\* the middleware answered 401 or 403: the handler does not run
Refuse(op, answer) ==
    /\ lastOp' = [op |-> op, amount |-> <<>>, missing |-> FALSE,
                  outcome |-> answer, emits |-> <<>>]
    /\ UNCHANGED <<accountVars, now, donations, requests, payments, claims,
                   payCalls, view, sockets, published>>

\* a request of user for operation op of the router of role: the handler
\* step runs when the middleware calls next()
Routed(role, user, op, handler) ==
    LET answer == RequireRole({role}, user)
    IN  IF answer = "next" THEN handler ELSE Refuse(op, answer)

(***************************************************************************)
(* Specification of the routes called by users of every role and by        *)
(* callers that are not logged in                                          *)
(***************************************************************************)
NextRoles ==
    \/ \E user \in Callers :
          Routed("donor", user, "donate", Donate(user, "laptop", "text", Some(50)))
    \/ \E user \in Callers :
          Routed("student", user, "request",
                 SubmitRequest(user, "laptop", "text", Null, None))
    \/ \E user \in Callers :
          Routed("donor", user, "payment", SubmitPayment(user, Some(100), Null))
    \/ \E user \in Callers, c \in ClaimIds, d \in DonationIds :
          Routed("student", user, "claim", ClaimFindSeq(c, user, d))
    \/ \E c \in ClaimIds : ClaimSaveDonation(c)
    \/ \E c \in ClaimIds : ClaimFindRequest(c)
    \/ \E c \in ClaimIds : ClaimSaveRequest(c)
    \/ \E user \in Callers, k \in PayCallIds, p \in 1..Len(payments) :
          Routed("admin", user, "process",
                 PayFind(k, user, p, "approve", "s2", "full", NoSplit))
    \/ \E k \in PayCallIds : PaySave(k)

SpecRoles == Init /\ [][NextRoles]_vars

(***************************************************************************)
(* Login and authenticateToken.  A token is its payload (one field naming  *)
(* a user) and whether it carries the server's signature.                  *)
(***************************************************************************)
\* the token with the payload { userId }, as AuthController signs it
GenerateTokenUserId(id) == [field |-> "userId", user |-> id, signed |-> TRUE]

\* generateToken(id) of routes/auth.js: jwt.sign({ id }, JWT_SECRET)
GenerateToken(id) == [field |-> "id", user |-> id, signed |-> TRUE]

\* server.js installs cors, express.json, express.urlencoded and
\* express.static: no middleware fills req.cookies or req.session
CookieParserInstalled == FALSE

\* the token authenticateToken reads from the request (lines 10-12)
ReadToken(header, cookie) ==
    IF header # NoToken THEN header
    ELSE IF CookieParserInstalled THEN cookie
    ELSE NoToken

\* authenticateToken on that token: the answer and req.user.  jwt.verify
\* throws on a token without the signature; decoded.userId is undefined
\* unless the payload has that field, and User.findById(undefined) is null
AuthenticateToken(token) ==
    IF token = NoToken THEN [outcome |-> "401", user |-> Null]
    ELSE IF ~token.signed THEN [outcome |-> "401", user |-> Null]
    ELSE IF token.field # "userId" \/ token.user \notin Users
    THEN [outcome |-> "401", user |-> Null]
    ELSE [outcome |-> "next", user |-> token.user]

\* POST /auth/login with the user's password (or the registration's
\* auto-login): the token is set as the cookie `token` of the browser
Login(user) ==
    /\ cookies' = [cookies EXCEPT ![user] = GenerateToken(user)]
    /\ UNCHANGED <<now, donations, requests, payments, claims, payCalls, view,
                   sockets, published, lastOp, users, donateCalls, signups,
                   lastAuth, clients>>

\* /auth/logout: res.clearCookie('token')
Logout(user) ==
    /\ cookies[user] # NoToken
    /\ cookies' = [cookies EXCEPT ![user] = NoToken]
    /\ UNCHANGED <<now, donations, requests, payments, claims, payCalls, view,
                   sockets, published, lastOp, users, donateCalls, signups,
                   lastAuth, clients>>

\* a request to a protected route: the browser of user sends its cookie,
\* and the client the Authorization header it chose
ProtectedRequest(user, header) ==
    /\ LET answer == AuthenticateToken(ReadToken(header, cookies[user]))
       IN  lastAuth' = [caller |-> user, cookie |-> cookies[user],
                        header |-> header, outcome |-> answer.outcome,
                        user |-> answer.user]
    /\ UNCHANGED <<now, donations, requests, payments, claims, payCalls, view,
                   sockets, published, lastOp, users, donateCalls, signups,
                   cookies, clients>>

(***************************************************************************)
(* Specification of logins followed by requests to protected routes        *)
(***************************************************************************)
\* the users that log in
LoginUsers == {"s1", "d1", "a1"}

\* the Authorization headers sent: none (a browser), the token the login
\* issued, a token without the server's signature, a token with the
\* payload { userId }
HeaderInputs(user) ==
    {NoToken, cookies[user], [GenerateTokenUserId(user) EXCEPT !.signed = FALSE],
     GenerateTokenUserId(user)}

NextLogin ==
    \/ \E user \in LoginUsers : Login(user)
    \/ \E user \in LoginUsers : Logout(user)
    \/ \E user \in LoginUsers : \E header \in HeaderInputs(user) :
          ProtectedRequest(user, header)

SpecLogin == Init /\ [][NextLogin]_vars

(***************************************************************************)
(* Registration of a student or donor: the uniqueId generators             *)
(* (userSchema.pre('save') and generateUniqueID) and the insert            *)
(***************************************************************************)
\* the uniqueIds of the stored users
UsedIds ==
    {signups[k].uniqueId :
        k \in {j \in SignupIds : signups[j].pc = "done" /\ signups[j].outcome = "ok"}}

NextSignupSlot(k) ==
    /\ signups[k].pc = "idle"
    /\ \A b \in SignupIds : b < k => signups[b].pc # "idle"

\* newUser.save() of a new student or donor without uniqueId enters the
\* pre-save hook's loop (via "preSave"); a caller of the utility enters
\* generateUniqueID's (via "generateUniqueID")
SignupStart(k, via) ==
    /\ NextSignupSlot(k)
    /\ signups' = [signups EXCEPT ![k] = [IdleSignup EXCEPT !.pc = "loop", !.via = via]]
    /\ UNCHANGED <<now, donations, requests, payments, claims, payCalls, view,
                   sockets, published, lastOp, users, donateCalls, cookies,
                   lastAuth, clients>>

\* the iteration with the loop bound off by one
PreSaveDrawOneMore(k, id) ==
    /\ signups[k].pc = "loop" /\ signups[k].via = "preSave"
    /\ signups[k].attempts <= MaxAttempts
    /\ signups' = [signups EXCEPT ![k] =
          IF id \notin UsedIds
          THEN [@ EXCEPT !.pc = "save", !.uniqueId = id, !.attempts = @ + 1,
                         !.draws = @ + 1]
          ELSE [@ EXCEPT !.attempts = @ + 1, !.draws = @ + 1,
                         !.pc = IF signups[k].attempts + 1 > MaxAttempts
                                THEN "done" ELSE "loop",
                         !.outcome = IF signups[k].attempts + 1 > MaxAttempts
                                     THEN "error" ELSE "none"]]
    /\ UNCHANGED <<now, donations, requests, payments, claims, payCalls, view,
                   sockets, published, lastOp, users, donateCalls, cookies,
                   lastAuth, clients>>

\* one iteration of the pre-save hook's loop, entered with !isUnique and
\* attempts < 10: a candidate is drawn and looked up; attempts++ either
\* way.  When the loop ends without an ID the hook calls next(new Error)
PreSaveDraw(k, id) ==
    /\ signups[k].pc = "loop" /\ signups[k].via = "preSave"
    /\ signups[k].attempts < MaxAttempts
    /\ signups' = [signups EXCEPT ![k] =
          IF id \notin UsedIds
          THEN [@ EXCEPT !.pc = "save", !.uniqueId = id, !.attempts = @ + 1,
                         !.draws = @ + 1]
          ELSE [@ EXCEPT !.attempts = @ + 1, !.draws = @ + 1,
                         !.pc = IF signups[k].attempts + 1 >= MaxAttempts
                                THEN "done" ELSE "loop",
                         !.outcome = IF signups[k].attempts + 1 >= MaxAttempts
                                     THEN "error" ELSE "none"]]
    /\ UNCHANGED <<now, donations, requests, payments, claims, payCalls, view,
                   sockets, published, lastOp, users, donateCalls, cookies,
                   lastAuth, clients>>

\* one iteration of generateUniqueID's loop: a free candidate is returned
\* at once; a candidate in use, or a lookup that throws, counts an attempt.
\* When the loop ends the function throws
GenerateDraw(k, id, throws) ==
    /\ signups[k].pc = "loop" /\ signups[k].via = "generateUniqueID"
    /\ signups[k].attempts < MaxAttempts
    /\ signups' = [signups EXCEPT ![k] =
          IF ~throws /\ id \notin UsedIds
          THEN [@ EXCEPT !.pc = "save", !.uniqueId = id, !.draws = @ + 1]
          ELSE [@ EXCEPT !.attempts = @ + 1, !.draws = @ + 1,
                         !.pc = IF signups[k].attempts + 1 >= MaxAttempts
                                THEN "done" ELSE "loop",
                         !.outcome = IF signups[k].attempts + 1 >= MaxAttempts
                                     THEN "error" ELSE "none"]]
    /\ UNCHANGED <<now, donations, requests, payments, claims, payCalls, view,
                   sockets, published, lastOp, users, donateCalls, cookies,
                   lastAuth, clients>>

\* the insert of the user document: the unique index on uniqueId rejects
\* an ID another registration has stored meanwhile (E11000)
SignupSave(k) ==
    /\ signups[k].pc = "save"
    /\ signups' = [signups EXCEPT ![k].pc = "done",
                                   ![k].outcome = IF signups[k].uniqueId \in UsedIds
                                                  THEN "duplicate" ELSE "ok"]
    /\ UNCHANGED <<now, donations, requests, payments, claims, payCalls, view,
                   sockets, published, lastOp, users, donateCalls, cookies,
                   lastAuth, clients>>

(***************************************************************************)
(* Specification of registrations that overlap                             *)
(***************************************************************************)
NextSignup ==
    \/ \E k \in SignupIds, via \in {"preSave", "generateUniqueID"} : SignupStart(k, via)
    \/ \E k \in SignupIds, id \in IdSpace : PreSaveDraw(k, id)
    \/ \E k \in SignupIds, id \in IdSpace, throws \in BOOLEAN : GenerateDraw(k, id, throws)
    \/ \E k \in SignupIds : SignupSave(k)

SpecSignup == Init /\ [][NextSignup]_vars

(***************************************************************************)
(* Store failures: a save() that rejects takes the handler to its catch    *)
(* block, which answers with an error                                      *)
(***************************************************************************)
\* newDonation.save(), newRequest.save() or newPayment.save() rejects
CreateSaveFails(op, amount) ==
    /\ lastOp' = [op |-> op, amount |-> amount, missing |-> FALSE,
                  outcome |-> "error", emits |-> <<>>]
    /\ UNCHANGED <<accountVars, now, donations, requests, payments, claims, payCalls, view,
                   sockets, published>>

\* donation.save() of claim-donation rejects
ClaimSaveDonationFails(c) ==
    /\ claims[c].pc = "saveDonation"
    /\ claims' = [claims EXCEPT ![c].pc = "done", ![c].outcome = "error"]
    /\ UNCHANGED <<accountVars, now, donations, requests, payments, payCalls, view,
                   sockets, published, lastOp>>

\* existingRequest.save() or newRequest.save() of claim-donation rejects
ClaimSaveRequestFails(c) ==
    /\ claims[c].pc = "saveRequest"
    /\ claims' = [claims EXCEPT ![c].pc = "done", ![c].outcome = "error"]
    /\ UNCHANGED <<accountVars, now, donations, requests, payments, payCalls, view,
                   sockets, published, lastOp>>

\* payment.save() of process-payment rejects
PaySaveFails(k) ==
    /\ payCalls[k].pc = "save"
    /\ payCalls' = [payCalls EXCEPT ![k].pc = "done", ![k].outcome = "error"]
    /\ UNCHANGED <<accountVars, now, donations, requests, payments, claims, view,
                   sockets, published, lastOp>>

(***************************************************************************)
(* Specification of the handlers with rejected inputs and failing saves    *)
(***************************************************************************)
NextFailures ==
    \/ \E type \in TypeInputs, value \in {Some(50), <<"-", "5">>} :
          Donate("d1", type, "text", value)
    \/ \E type \in {"laptop", Null} : SubmitRequest("s1", type, "text", Null, None)
    \/ \E amount \in {Some(100), <<"0">>} : SubmitPayment("d1", amount, Null)
    \/ \E op \in {"donate", "request", "payment"} : CreateSaveFails(op, Some(50))
    \/ \E c \in ClaimIds, d \in 0..Len(donations) : ClaimFindSeq(c, "s1", d)
    \/ \E c \in ClaimIds : ClaimSaveDonation(c)
    \/ \E c \in ClaimIds : ClaimSaveDonationFails(c)
    \/ \E c \in ClaimIds : ClaimFindRequest(c)
    \/ \E c \in ClaimIds : ClaimSaveRequest(c)
    \/ \E c \in ClaimIds : ClaimSaveRequestFails(c)

SpecFailures == Init /\ [][NextFailures]_vars

(***************************************************************************)
(* The socket handlers of server.js and the client's connection            *)
(***************************************************************************)
\* session 1 is a page of donor d1, session 2 a page of admin a1
SocketUser(s) == IF s = 1 THEN "d1" ELSE "a1"

\* a page of user opens its socket (a reconnect is a new socket with no
\* rooms; the client keeps what it had received)
SocketConnect(s, user) ==
    /\ ~sockets[s].open
    /\ sockets[s].user \in {Null, user}
    /\ sockets' = [sockets EXCEPT ![s].open = TRUE, ![s].user = user,
                                  ![s].rooms = {}]
    /\ UNCHANGED <<accountVars, now, donations, requests, payments, claims, payCalls, view,
                   published, lastOp>>

\* socket.on('join-room', role): socket.join(role), whatever role is
JoinRoom(s, room) ==
    /\ sockets[s].open
    /\ sockets' = [sockets EXCEPT ![s].rooms = @ \cup {room}]
    /\ UNCHANGED <<accountVars, now, donations, requests, payments, claims, payCalls, view,
                   published, lastOp>>

\* the disconnect with the rooms of the socket kept
SocketDisconnectKeepsRooms(s) ==
    /\ sockets[s].open
    /\ sockets' = [sockets EXCEPT ![s].open = FALSE]
    /\ UNCHANGED <<accountVars, now, donations, requests, payments, claims, payCalls, view,
                   published, lastOp>>

\* the socket closes: it leaves every room
SocketDisconnect(s) ==
    /\ sockets[s].open
    /\ sockets' = [sockets EXCEPT ![s].open = FALSE, ![s].rooms = {}]
    /\ UNCHANGED <<accountVars, now, donations, requests, payments, claims, payCalls, view,
                   published, lastOp>>

\* socket.on('student-request', data): relayed to the other sockets of the
\* rooms admin and donor
RelayStudentRequest(s) ==
    /\ sockets[s].open
    /\ Publish(<<Event("new-student-request", "admin"),
                 Event("new-student-request", "donor")>>, s)
    /\ UNCHANGED <<accountVars, now, donations, requests, payments, claims, payCalls, view,
                   lastOp>>

\* socket.on('donor-offering', data): relayed to the other sockets of the
\* rooms student and admin
RelayDonorOffering(s) ==
    /\ sockets[s].open
    /\ Publish(<<Event("new-donor-offering", "student"),
                 Event("new-donor-offering", "admin")>>, s)
    /\ UNCHANGED <<accountVars, now, donations, requests, payments, claims, payCalls, view,
                   lastOp>>

(***************************************************************************)
(* The page's socket client (public/js/main.js, public/js/socket-client.js)*)
(***************************************************************************)
\* the event names the page's script registers a listener for, by role
Listeners(script, role) ==
    IF script = "main.js"
    THEN {"system-notification"} \cup
         CASE role = "student" -> {"new-donor-offering", "request-fulfilled"}
           [] role = "donor" -> {"new-student-request", "donation-claimed"}
           [] role = "admin" -> {"new-user-registration", "new-payment"}
           [] OTHER -> {}
    ELSE {"system-notification", "maintenance-notice", "stats-update"} \cup
         CASE role = "student" ->
                  {"new-donor-offering", "request-status-update",
                   "donation-claimed-success"}
           [] role = "donor" ->
                  {"new-student-request", "donation-claimed", "payment-processed"}
           [] role = "admin" -> {"new-user-registration", "new-payment"}
           [] OTHER -> {}

\* DOMContentLoaded: the script reads the page's user and calls io().  In
\* socket-client.js the options object names the undeclared variable
\* maxReconnectionAttempts, so initializeSocket throws before io() is
\* called and the page has no socket
PageLoad(s, script, known) ==
    /\ clients[s] = NoClient
    /\ clients' = [clients EXCEPT ![s] =
          [script |-> script, socket |-> (script = "main.js"),
           role |-> IF known THEN RoleOf(SocketUser(s)) ELSE Null,
           sent |-> Null, connects |-> 0]]
    /\ UNCHANGED <<now, donations, requests, payments, claims, payCalls, view,
                   sockets, published, lastOp, users, donateCalls, signups,
                   cookies, lastAuth>>

\* the client with join-room sent once, when the socket first connects
ClientConnectJoinsOnce(s) ==
    /\ clients[s].socket /\ ~sockets[s].open
    /\ clients[s].connects < MaxConnects
    /\ sockets' = [sockets EXCEPT ![s].open = TRUE, ![s].user = SocketUser(s),
                                  ![s].rooms = {}]
    /\ clients' = [clients EXCEPT
          ![s].sent = IF clients[s].connects = 0 THEN clients[s].role ELSE Null,
          ![s].connects = @ + 1]
    /\ UNCHANGED <<now, donations, requests, payments, claims, payCalls, view,
                   published, lastOp, users, donateCalls, signups, cookies,
                   lastAuth>>

\* the socket connects, the first time or after a disconnect, as a new
\* session without rooms; the client's 'connect' listener runs and emits
\* join-room with the role, if the page knows one
ClientConnect(s) ==
    /\ clients[s].socket /\ ~sockets[s].open
    /\ clients[s].connects < MaxConnects
    /\ sockets' = [sockets EXCEPT ![s].open = TRUE, ![s].user = SocketUser(s),
                                  ![s].rooms = {}]
    /\ clients' = [clients EXCEPT ![s].sent = clients[s].role,
                                  ![s].connects = @ + 1]
    /\ UNCHANGED <<now, donations, requests, payments, claims, payCalls, view,
                   published, lastOp, users, donateCalls, signups, cookies,
                   lastAuth>>

\* the server receives the client's join-room: socket.join(role)
ServerJoinRoom(s) ==
    /\ sockets[s].open
    /\ clients[s].sent # Null
    /\ sockets' = [sockets EXCEPT ![s].rooms = @ \cup {clients[s].sent}]
    /\ clients' = [clients EXCEPT ![s].sent = Null]
    /\ UNCHANGED <<now, donations, requests, payments, claims, payCalls, view,
                   published, lastOp, users, donateCalls, signups, cookies,
                   lastAuth>>

\* the connection drops: the session leaves its rooms and a join-room still
\* on its way is lost
ClientDisconnect(s) ==
    /\ sockets[s].open /\ clients[s].socket
    /\ sockets' = [sockets EXCEPT ![s].open = FALSE, ![s].rooms = {}]
    /\ clients' = [clients EXCEPT ![s].sent = Null]
    /\ UNCHANGED <<now, donations, requests, payments, claims, payCalls, view,
                   published, lastOp, users, donateCalls, signups, cookies,
                   lastAuth>>

(***************************************************************************)
(* Specification of pages whose sockets connect, drop and reconnect.  The  *)
(* server handles every message it has received: weak fairness of          *)
(* ServerJoinRoom                                                          *)
(***************************************************************************)
NextReconnect ==
    \/ \E s \in SocketIds, script \in {"main.js", "socket-client.js"},
          known \in BOOLEAN : PageLoad(s, script, known)
    \/ \E s \in SocketIds : ClientConnect(s)
    \/ \E s \in SocketIds : ServerJoinRoom(s)
    \/ \E s \in SocketIds : ClientDisconnect(s)
    \/ Donate("d1", "laptop", "text", Some(50))

SpecReconnect ==
    /\ Init
    /\ [][NextReconnect]_vars
    /\ \A s \in SocketIds : WF_vars(ServerJoinRoom(s))

(***************************************************************************)
(* Specification of the notifications: sessions connect, join rooms and    *)
(* disconnect while donations are offered and claimed and events relayed   *)
(***************************************************************************)
\* the room names the join-room messages carry
RoomInputs == {"donor", "admin", UserRoom("d1")}

NextSockets ==
    \/ \E s \in SocketIds : SocketConnect(s, SocketUser(s))
    \/ \E s \in SocketIds, room \in RoomInputs : JoinRoom(s, room)
    \/ \E s \in SocketIds : SocketDisconnect(s)
    \/ \E s \in SocketIds : RelayStudentRequest(s)
    \/ \E s \in SocketIds : RelayDonorOffering(s)
    \/ Donate("d1", "laptop", "text", Some(50))

SpecSockets == Init /\ [][NextSockets]_vars

(***************************************************************************)
(* Specification of the claim notifications: sessions connect and join     *)
(* rooms while donations are offered and claimed, one claim at a time      *)
(***************************************************************************)
NextClaimNotify ==
    \/ \E s \in SocketIds : SocketConnect(s, SocketUser(s))
    \/ \E s \in SocketIds, room \in RoomInputs : JoinRoom(s, room)
    \/ \E s \in SocketIds : SocketDisconnect(s)
    \/ Donate("d1", "laptop", "text", Some(50))
    \/ \E c \in ClaimIds, d \in DonationIds : ClaimFindSeq(c, "s1", d)
    \/ \E c \in ClaimIds : ClaimSaveDonation(c)
    \/ \E c \in ClaimIds : ClaimFindRequest(c)
    \/ \E c \in ClaimIds : ClaimSaveRequest(c)

SpecClaimNotify == Init /\ [][NextClaimNotify]_vars

(***************************************************************************)
(* Specification of the payment handlers                                   *)
(***************************************************************************)
AmountInputs == {100}
\* the split lists of the payment-split scenario: 60 + 40 and 60 + 50
SplitLists ==
    {<<>>} \cup
    {<<[student |-> "s1", amount |-> 60], [student |-> "s2", amount |-> b]>> :
        b \in {40, 50}}
SplitInputs == {NoSplit, BadSplit} \cup {SplitText(l) : l \in SplitLists}

NextPay ==
    \/ Tick
    \/ \E donor \in Donors, amount \in AmountInputs, r \in {Null, "s1"} :
          SubmitPayment(donor, Some(amount), r)
    \/ \E k \in PayCallIds, admin \in Admins, p \in 0..Len(payments),
          action \in {"approve", "reject", Null}, r \in {Null, "s2"},
          dm \in {Null, "full", "split"}, split \in SplitInputs :
          PayFind(k, admin, p, action, r, dm, split)
    \/ \E k \in PayCallIds : PaySave(k)

SpecPay == Init /\ [][NextPay]_vars

(***************************************************************************)
(* Specification of process-payment with its error paths: missing          *)
(* payments, malformed split lists, version conflicts and failing saves    *)
(***************************************************************************)
NextPayErrors ==
    \/ SubmitPayment("d1", Some(100), Null)
    \/ \E k \in PayCallIds, admin \in Admins, p \in 0..Len(payments),
          action \in {"approve", "reject"}, dm \in {"full", "split"},
          split \in {BadSplit, SplitText(<<[student |-> "s1", amount |-> 100]>>)} :
          PayFind(k, admin, p, action, "s2", dm, split)
    \/ \E k \in PayCallIds : PaySave(k)
    \/ \E k \in PayCallIds : PaySaveFails(k)

SpecPayErrors == Init /\ [][NextPayErrors]_vars

(***************************************************************************)
(* Specification of process-payment called again and again on one payment: *)
(* a call that was answered leaves its place to the next                   *)
(***************************************************************************)
NextReprocess ==
    \/ Tick
    \/ SubmitPayment("d1", Some(100), Null)
    \/ \E k \in PayCallIds, admin \in Admins, p \in 1..Len(payments),
          action \in {"approve", "reject"} :
          PayFind(k, admin, p, action, "s2", "full", NoSplit)
    \/ \E k \in PayCallIds : PaySave(k)
    \/ \E k \in PayCallIds : PayCallEnds(k)

SpecReprocess == Init /\ [][NextReprocess]_vars

(***************************************************************************)
(* Specification of donate requests that overlap                           *)
(***************************************************************************)
NextDonate ==
    \/ Tick
    \/ \E k \in DonateCallIds, donor \in Donors : DonateAuth(k, donor)
    \/ \E k \in DonateCallIds, type \in TypeInputs \cup {Null},
          value \in {Some(50), <<"-", "5">>} :
          DonateSaveDonation(k, type, "text", value)
    \/ \E k \in DonateCallIds : DonateSaveUser(k)

SpecDonate == Init /\ [][NextDonate]_vars

(***************************************************************************)
(* Specification of the create handlers on arbitrary amount texts          *)
(***************************************************************************)
\* the characters of the amount texts: a sign, two digits and a letter
AmountChars == {"-", "0", "5", "a"}
\* the texts of at most MaxAmountLen characters
AmountTexts ==
    UNION {[1..n -> AmountChars] : n \in 0..MaxAmountLen}

NextCreate ==
    \/ \E value \in AmountTexts : Donate("d1", "laptop", "text", value)
    \/ Donate("d1", Null, "text", Some(50))
    \/ \E amount \in AmountTexts : SubmitRequest("s1", "laptop", "text", Null, amount)
    \/ SubmitRequest("s1", Null, "text", Null, Some(50))
    \/ \E amount \in AmountTexts : SubmitPayment("d1", amount, Null)

SpecCreate == Init /\ [][NextCreate]_vars

(***************************************************************************)
(* Properties of claim-donation                                            *)
(***************************************************************************)

\* the claim handlers that arrived for donation d
ClaimsOn(d) == {c \in ClaimIds : claims[c].pc # "idle" /\ claims[c].donationId = d}

\* C1: of the claim requests of distinct students on one donation at most
\* one moves it from available to reserved, and at most one is answered
\* that it succeeded
C1_AtMostOneClaimWins ==
    \A d \in DonationIds : \A c1, c2 \in ClaimsOn(d) :
        claims[c1].student # claims[c2].student =>
            /\ ~(claims[c1].reserved /\ claims[c2].reserved)
            /\ ~(claims[c1].outcome = "ok" /\ claims[c2].outcome = "ok")

\* C2: with the claims handled one after the other, the first claim on a
\* donation succeeds and reserves it for its student, and every later claim
\* by another student is answered unavailable, the donation staying
\* reserved for the first student
C2_SequentialClaim ==
    \A d \in DonationIds : \A c \in ClaimsOn(d) :
        claims[c].pc = "done" =>
            LET first == CHOOSE b \in ClaimsOn(d) : \A e \in ClaimsOn(d) : b <= e
            IN  IF c = first
                THEN /\ claims[c].outcome = "ok"
                     /\ donations[d].status = "reserved"
                     /\ donations[d].recipient = claims[c].student
                ELSE claims[c].student # claims[first].student =>
                     /\ claims[c].outcome = "unavailable"
                     /\ donations[d].status = "reserved"
                     /\ donations[d].recipient = claims[first].student

\* C3: once a request is fulfilled, its status, fulfilledBy and fulfilledAt
\* are never written again
C3_FulfilledOnce ==
    [][\A r \in RequestIds :
          requests[r].status = "fulfilled" =>
              /\ requests'[r].status = requests[r].status
              /\ requests'[r].fulfilledBy = requests[r].fulfilledBy
              /\ requests'[r].fulfilledAt = requests[r].fulfilledAt]_vars

\* C4: after a claim that reserved a donation of kind K for student S has
\* completed, a fulfilled request of S with type K and fulfilledBy the
\* donation's donor is in the store
C4_ClaimLeavesFulfilledRequest ==
    \A c \in ClaimIds :
        (claims[c].pc = "done" /\ claims[c].reserved) =>
            \E r \in RequestIds :
                /\ requests[r].student = claims[c].student
                /\ requests[r].type = claims[c].type
                /\ requests[r].status = "fulfilled"
                /\ requests[r].fulfilledBy = claims[c].donor

\* C5: no donation is reserved by a claim made after its expiresAt time
C5_NoClaimAfterExpiry ==
    \A d \in DonationIds :
        donations[d].status = "reserved" =>
            donations[d].donatedAt <= donations[d].expiresAt

\* C22: a claim that was answered that it failed has not reserved the
\* donation for its student: the donation is not left reserved, with that
\* student as recipient, by the call's own write
C22_FailedClaimReservesNothing ==
    \A c \in ClaimIds :
        (/\ claims[c].pc = "done"
         /\ claims[c].outcome # "ok"
         /\ claims[c].donationId \in DonationIds)
        => ~(/\ claims[c].reserved
             /\ donations[claims[c].donationId].status = "reserved"
             /\ donations[claims[c].donationId].recipient = claims[c].student)

\* C12: a donation's status stays, or moves from available to reserved or
\* expired, or from reserved to donated: nothing returns to available and
\* nothing leaves donated or expired
C12_DonationStatusMonotonic ==
    [][\A d \in DonationIds :
          /\ d \in 1..Len(donations')
          /\ \/ donations'[d].status = donations[d].status
             \/ /\ donations[d].status = "available"
                /\ donations'[d].status \in {"reserved", "expired"}
             \/ /\ donations[d].status = "reserved"
                /\ donations'[d].status = "donated"]_vars

\* a claim on the donated donation was refused and left it donated, while
\* another donation went from available to reserved
C12_Witness ==
    /\ \E c \in ClaimIds :
          /\ claims[c].outcome = "unavailable"
          /\ claims[c].donationId \in DonationIds
          /\ donations[claims[c].donationId].status = "donated"
    /\ \E d \in DonationIds : donations[d].status = "reserved"

(***************************************************************************)
(* Properties of process-payment                                           *)
(***************************************************************************)
PaymentIds == 1..Len(payments)

RECURSIVE SumShares(_)
\* the total of a split list's amounts
SumShares(list) ==
    IF list = <<>> THEN 0 ELSE Head(list).amount + SumShares(Tail(list))

\* C6: a process-payment call (approve or reject) on a payment that was
\* not pending when the call read it is answered with a conflict and
\* changes no payment
C6_NonPendingIsConflict ==
    [][\A k \in PayCallIds :
          (/\ payCalls[k].pc = "save"
           /\ payCalls'[k].pc = "done"
           /\ payCalls[k].read # "pending")
          => (payCalls'[k].outcome = "conflict" /\ payments' = payments)]_vars

\* C7: once a payment is approved or cancelled, its status, recipient,
\* distributionMethod, splitAmong, processedBy and processedAt never change
C7_ProcessedIsImmutable ==
    [][\A p \in PaymentIds :
          payments[p].status \in {"approved", "cancelled"} =>
              \A f \in PaymentPaths : payments'[p][f] = payments[p][f]]_vars

\* C8: an approved payment with distribution method split stores a split
\* list whose amounts sum exactly to the payment's amount
C8_SplitSumsToAmount ==
    \A p \in PaymentIds :
        (payments[p].status = "approved" /\ payments[p].distributionMethod = "split")
        => SumShares(payments[p].splitAmong) = payments[p].amount

\* C9: an approved payment is either full with a recipient set or split
\* with a stored split list
C9_ApprovedHasDistribution ==
    \A p \in PaymentIds :
        payments[p].status = "approved" =>
            \/ (payments[p].distributionMethod = "full" /\ payments[p].recipient # Null)
            \/ (payments[p].distributionMethod = "split" /\ payments[p].splitAmong # <<>>)

\* C18: a process-payment call that is answered with an error (payment not
\* found, malformed split list, failed save) leaves every stored payment
\* as it was, and a call on a missing payment or with a malformed split
\* list is answered with that error in the step it arrives
C18_ErrorChangesNothing ==
    [][\A k \in PayCallIds :
          /\ (/\ payCalls[k].pc # "done"
              /\ payCalls'[k].pc = "done"
              /\ payCalls'[k].outcome \in {"notfound", "error"})
             => payments' = payments
          /\ (/\ payCalls[k].pc = "idle"
              /\ payCalls'[k].pc # "idle"
              /\ payCalls'[k].paymentId \notin PaymentIds)
             => (payCalls'[k].pc = "done" /\ payCalls'[k].outcome = "notfound")]_vars

\* one call was answered not found, another failed on a payment that is
\* still pending with no processedBy
C18_Witness ==
    /\ \E k \in PayCallIds : payCalls[k].outcome = "notfound"
    /\ \E k \in PayCallIds :
          /\ payCalls[k].outcome = "error"
          /\ payCalls[k].paymentId \in PaymentIds
          /\ payments[payCalls[k].paymentId].status = "pending"
          /\ payments[payCalls[k].paymentId].processedBy = Null

\* C21: a process-payment save that changes a payment's status leaves the
\* payment with processedBy the admin of that call and processedAt set
C21_StatusChangeRecordsAdmin ==
    [][\A k \in PayCallIds :
          LET p == payCalls[k].paymentId
          IN  (/\ payCalls[k].pc = "save"
               /\ payCalls'[k].pc = "done"
               /\ payments'[p].status # payments[p].status)
              => /\ payments'[p].processedBy = payCalls[k].admin
                 /\ payments'[p].processedAt # NoDate]_vars

\* C19: every process-payment call is answered, or about to be: none is
\* left without a response
C19_EveryCallAnswered ==
    \A k \in PayCallIds : payCalls[k].pc \in {"idle", "save", "done"}

(***************************************************************************)
(* Specification of the donor's request views                              *)
(***************************************************************************)
SortAmountInputs == {None, Some(10)}

NextSort ==
    \/ Tick
    \/ \E s \in {"s1"}, u \in UrgencyLevels \cup {Null}, a \in SortAmountInputs :
          SubmitRequest(s, "laptop", "text", u, a)
    \/ \E s \in {"s1"}, u \in UrgencyLevels \cup {Null}, a \in SortAmountInputs,
          built \in ClockTimes :
          SubmitRequestLate(s, "laptop", "text", u, a, built)
    \/ \E u \in UrgencyLevels \cup {Null}, sort \in {Null, "urgency", "amount"} :
          DonorRequests(Null, u, sort)
    \/ DonorDashboard

SpecSort == Init /\ [][NextSort]_vars

(***************************************************************************)
(* Properties of the donor's request views                                 *)
(***************************************************************************)
\* the urgency rank: critical > high > medium > low
UrgencyRank(u) ==
    CASE u = "critical" -> 4 [] u = "high" -> 3 [] u = "medium" -> 2 [] u = "low" -> 1

\* C10: in an urgency-sorted view a request of higher urgency precedes
\* every request of lower urgency
C10_UrgencyRankOrder ==
    view.options = "urgency" =>
        \A i, j \in DOMAIN view.list :
            i < j => UrgencyRank(requests[view.list[i]].urgencyLevel)
                        >= UrgencyRank(requests[view.list[j]].urgencyLevel)

\* C11: in an urgency-sorted view, of two requests with the same urgency
\* the one created earlier comes first, whatever the order in which the
\* two were inserted
C11_EqualUrgencyOldestFirst ==
    view.options = "urgency" =>
        \A i, j \in DOMAIN view.list :
            (/\ requests[view.list[i]].urgencyLevel = requests[view.list[j]].urgencyLevel
             /\ requests[view.list[i]].createdAt < requests[view.list[j]].createdAt)
            => i < j

\* an urgency-sorted view listing two requests of equal urgency, the one
\* created earlier having been inserted later
C11_Witness ==
    /\ view.options = "urgency"
    /\ \E i, j \in DOMAIN view.list :
          /\ i < j
          /\ view.list[i] > view.list[j]
          /\ requests[view.list[i]].urgencyLevel = requests[view.list[j]].urgencyLevel
          /\ requests[view.list[i]].createdAt < requests[view.list[j]].createdAt

(***************************************************************************)
(* Properties of the notifications                                         *)
(***************************************************************************)
\* C13: every create, claim or process-payment call that succeeded
\* published at least one event
C13_SuccessPublishes ==
    /\ lastOp.outcome = "ok" => lastOp.emits # <<>>
    /\ \A c \in ClaimIds : claims[c].outcome = "ok" => claims[c].emits # <<>>
    /\ \A k \in PayCallIds : payCalls[k].outcome = "ok" => payCalls[k].emits # <<>>

\* a record was stored, or a claimed request saved, in this step
SavedInStep ==
    \/ Len(donations') = Len(donations) + 1
    \/ Len(requests') = Len(requests) + 1
    \/ Len(payments') = Len(payments) + 1
    \/ \E c \in ClaimIds :
          /\ claims[c].pc = "saveRequest"
          /\ claims[c].reserved
          /\ donations[claims[c].donationId].status = "reserved"
          /\ claims[c].existing \in RequestIds
          /\ requests'[claims[c].existing].status = "fulfilled"

\* C17: a route handler publishes only in the step in which its record is
\* saved, and a create or claim call that was rejected or failed published
\* nothing
C17_PublishOnlyAfterSave ==
    [][/\ (published' # published /\ published'.sender = 0) => SavedInStep
       /\ lastOp'.outcome # "ok" => lastOp'.emits = <<>>
       /\ \A c \in ClaimIds :
              claims'[c].outcome # "ok" => claims'[c].emits = <<>>
       /\ (\E c \in ClaimIds : claims'[c].pc = "done" /\ claims[c].pc # "done")
              => (published' # published
                     <=> \E c \in ClaimIds : claims[c].pc # "done"
                                              /\ claims'[c].outcome = "ok")
       /\ lastOp' # lastOp => (published' # published <=> lastOp'.outcome = "ok")]_vars

\* a claim that reserved a donation and then failed to save its request,
\* a rejected create call and a successful one: only the last published
C17_Witness ==
    /\ \E c \in ClaimIds :
          /\ claims[c].reserved
          /\ claims[c].outcome = "error"
          /\ claims[c].emits = <<>>
    /\ \E c \in ClaimIds : claims[c].outcome = "unavailable"
    /\ lastOp.outcome = "rejected"
    /\ published.emits = PaymentEvents

\* C14: when a claim succeeds, every connected session of the donation's
\* donor that has joined its role room receives donation-claimed on the
\* donor's private room
C14_OwnerNotified ==
    [][\A c \in ClaimIds :
          (/\ claims[c].pc = "saveRequest"
           /\ claims'[c].pc = "done"
           /\ claims'[c].outcome = "ok")
          => \A s \in SocketIds :
                (/\ sockets[s].open
                 /\ sockets[s].user = claims[c].donor
                 /\ RoleOf(sockets[s].user) \in sockets[s].rooms)
                => \E i \in (Len(sockets[s].inbox) + 1)..Len(sockets'[s].inbox) :
                      sockets'[s].inbox[i] =
                          Event("donation-claimed", UserRoom(claims[c].donor))]_vars

\* the events session s receives in a step
Gained(s) ==
    SubSeq(sockets'[s].inbox, Len(sockets[s].inbox) + 1, Len(sockets'[s].inbox))

\* session s is connected and in the room
Subscribed(s, room) == sockets[s].open /\ room \in sockets[s].rooms

\* the events of the publish that session s is subscribed to
EventsFor(s) ==
    LET Mine(e) == Subscribed(s, e.room)
    IN  SelectSeq(published'.emits, Mine)

C16_DisconnectedGetsNothing ==
    [][\A s \in SocketIds :
          /\ ~sockets'[s].open => sockets'[s].rooms = {}
          /\ ~sockets[s].open => sockets'[s].inbox = sockets[s].inbox]_vars

\* two sessions of one room received a first event; the second event of
\* that room, published by a handler, reached only t; s is connected and in
\* the room again and has not been sent the second event
C16_Witness ==
    \E s, t \in SocketIds :
        /\ s # t
        /\ published.sender = 0
        /\ sockets[s].open /\ sockets[t].open
        /\ Len(sockets[s].inbox) = 1 /\ Len(sockets[t].inbox) = 2
        /\ sockets[t].inbox[1] = sockets[s].inbox[1]
        /\ sockets[t].inbox[2] = sockets[s].inbox[1]
        /\ sockets[s].inbox[1].room \in sockets[s].rooms \cap sockets[t].rooms

\* C24: every new-student-request a session receives is delivered in the
\* step that stored a request, and every new-donor-offering in the step
\* that stored a donation
C24_EventsHaveStoredRecords ==
    [][\A s \in SocketIds : \A i \in DOMAIN Gained(s) :
          /\ Gained(s)[i].name = "new-student-request"
                 => Len(requests') = Len(requests) + 1
          /\ Gained(s)[i].name = "new-donor-offering"
                 => Len(donations') = Len(donations) + 1]_vars

\* the role rooms
RoleRooms == {"student", "donor", "admin"}

\* C23: a session is in a role room only if its user has that role, and
\* every event of a role room that a session received was published to the
\* room of its user's role
C23_RoleRoomsHoldOnlyTheRole ==
    \A s \in SocketIds :
        /\ \A room \in sockets[s].rooms \cap RoleRooms :
               RoleOf(sockets[s].user) = room
        /\ \A i \in DOMAIN sockets[s].inbox :
               sockets[s].inbox[i].room \in RoleRooms
                   => RoleOf(sockets[s].user) = sockets[s].inbox[i].room

C27_IssuedTokenAccepted ==
    \A user \in Users :
        (/\ lastAuth.caller = user
         /\ \/ (lastAuth.header = NoToken /\ lastAuth.cookie = GenerateToken(user))
            \/ lastAuth.header = GenerateToken(user))
        => (lastAuth.outcome = "next" /\ lastAuth.user = user)

DonationsOf(donor) == {d \in DonationIds : donations[d].donor = donor}

\* C25: when no donate request is in flight, every donor's totalDonations
\* is the number of donation records the donor created
C25_TotalMatchesRecords ==
    (\A k \in DonateCallIds : donateCalls[k].pc \in {"idle", "done"})
    => \A donor \in Donors :
          users[donor].totalDonations = Cardinality(DonationsOf(donor))

\* C29: whenever a page's socket is connected and the page knows its role,
\* the session is eventually in the room of that role, unless the
\* connection drops first; this holds after every connect
C29_ReconnectRejoins ==
    \A s \in SocketIds :
        (sockets[s].open /\ clients[s].socket /\ clients[s].role # Null)
            ~> (clients[s].role \in sockets[s].rooms \/ ~sockets[s].open)

\* a session that connected a second time and is in its role room again
C29_Witness ==
    \E s \in SocketIds :
        /\ clients[s].connects = MaxConnects
        /\ sockets[s].open
        /\ clients[s].role \in sockets[s].rooms

\* C30: every event a session received on the room of its page's role is
\* one the page's script registered a listener for
C30_PublishedEventsHandled ==
    \A s \in SocketIds : \A i \in DOMAIN sockets[s].inbox :
        (/\ clients[s].role # Null
         /\ sockets[s].inbox[i].room = clients[s].role)
        => sockets[s].inbox[i].name \in Listeners(clients[s].script, clients[s].role)

(***************************************************************************)
(* Properties of the create handlers                                       *)
(***************************************************************************)
\* a create call with a required field missing, or whose amount text is the
\* numeral of a negative number (of a number <= 0 for a payment)
InvalidCreate(call) ==
    \/ call.missing
    \/ /\ call.op # Null
       /\ call.amount # None
       /\ ToNumber(call.amount) # NaN
       /\ \/ ToNumber(call.amount)[1] < 0
          \/ (call.op = "payment" /\ ToNumber(call.amount)[1] <= 0)

\* C20: every stored payment has amount > 0, every stored donation value >= 0
\* and every stored request amount >= 0, and a create call with a negative
\* amount (non-positive for a payment) or a missing required field stored
\* no record
C20_StoredAmountsValid ==
    /\ \A p \in PaymentIds : payments[p].amount > 0
    /\ \A d \in DonationIds : donations[d].value >= 0
    /\ \A r \in RequestIds : requests[r].amount >= 0
    /\ InvalidCreate(lastOp) => lastOp.outcome # "ok"

====
